---- MODULE Spec2Model ----
(***************************************************************************)
(* A model of awsInspectorReporter/aws-inspector-report.js: the            *)
(* interactive pipeline of main() (profile discovery, prompts, region      *)
(* catalog, availability probe, finding retrieval, CSV export), the        *)
(* SIGINT handler, and the pure CSV serializer convertToCsv.                *)
(*                                                                         *)
(* JavaScript strings are TLA+ strings (TLC evaluates Len, \o, SubSeq,     *)
(* Head and Tail on them).  Other JavaScript values are tagged records:    *)
(* [t |-> "undef"], [t |-> "null"], [t |-> "str", v |-> s],                *)
(* [t |-> "num", v |-> n], [t |-> "arr", v |-> <<...>>] and                *)
(* [t |-> "obj", v |-> record].                                            *)
(***************************************************************************)
EXTENDS Integers, Sequences, FiniteSets, TLC

(***************************************************************************)
(* Bounds of the model.                                                    *)
(***************************************************************************)
\* rejected answers per prompt before the model stops typing wrong ones
MaxRetries == 2
\* findings in the input of the stand-alone CSV specification
MaxCsvFindings == 2
\* findings one list-findings query returns in the pipeline
MaxQueryFindings == 2

(***************************************************************************)
(* JavaScript strings.                                                     *)
(***************************************************************************)
CharAt(s, i) == SubSeq(s, i, i)

\* String.prototype.includes(sub)
Includes(s, sub) ==
  \E i \in 1..(Len(s) - Len(sub) + 1) : SubSeq(s, i, i + Len(sub) - 1) = sub

\* s.replace(/c/g, r) for a one-character pattern c
RECURSIVE ReplaceAll(_, _, _)
ReplaceAll(s, c, r) ==
  IF Len(s) = 0 THEN ""
  ELSE (IF Head(s) = c THEN r ELSE Head(s)) \o ReplaceAll(Tail(s), c, r)

\* s.split(sep)[0] for a one-character separator
RECURSIVE SplitFirst(_, _)
SplitFirst(s, sep) ==
  IF Len(s) = 0 \/ Head(s) = sep THEN ""
  ELSE Head(s) \o SplitFirst(Tail(s), sep)

Digits == <<"0", "1", "2", "3", "4", "5", "6", "7", "8", "9">>
IsDigit(c) == \E d \in 1..10 : Digits[d] = c
DigitVal(c) == (CHOOSE d \in 1..10 : Digits[d] = c) - 1
IsSpace(c) == c \in {" ", "\t", "\n", "\r"}

\* the value of the longest prefix of decimal digits of s, continuing acc
RECURSIVE DigitsPrefix(_, _)
DigitsPrefix(s, acc) ==
  IF Len(s) = 0 \/ ~IsDigit(Head(s)) THEN acc
  ELSE DigitsPrefix(Tail(s), 10 * acc + DigitVal(Head(s)))

RECURSIVE TrimStart(_)
TrimStart(s) == IF Len(s) > 0 /\ IsSpace(Head(s)) THEN TrimStart(Tail(s)) ELSE s

\* parseInt(s): leading white space is skipped, one sign is read, then the
\* longest prefix of digits; NaN when there is no digit.
ParseInt(s) ==
  LET t == TrimStart(s)
      neg == Len(t) > 0 /\ Head(t) = "-"
      u == IF Len(t) > 0 /\ Head(t) \in {"-", "+"} THEN Tail(t) ELSE t
  IN IF Len(u) = 0 \/ ~IsDigit(Head(u)) THEN [nan |-> TRUE, n |-> 0]
     ELSE [nan |-> FALSE, n |-> IF neg THEN 0 - DigitsPrefix(u, 0) ELSE DigitsPrefix(u, 0)]

\* String(n) for a natural number n
RECURSIVE NatToString(_)
NatToString(n) ==
  IF n < 10 THEN Digits[n + 1] ELSE NatToString(n \div 10) \o Digits[(n % 10) + 1]

\* Array.prototype.join(sep) on an array of strings
RECURSIVE Join(_, _)
Join(a, sep) ==
  IF Len(a) = 0 THEN ""
  ELSE IF Len(a) = 1 THEN a[1]
  ELSE a[1] \o sep \o Join(Tail(a), sep)

(***************************************************************************)
(* JavaScript values.                                                      *)
(***************************************************************************)
Undefined == [t |-> "undef"]
Null == [t |-> "null"]
Str(s) == [t |-> "str", v |-> s]
Num(n) == [t |-> "num", v |-> n]
Arr(a) == [t |-> "arr", v |-> a]
Obj(r) == [t |-> "obj", v |-> r]
EmptyObj == Obj(<<>>)

\* ToBoolean
Truthy(x) ==
  CASE x.t = "undef" -> FALSE
    [] x.t = "null" -> FALSE
    [] x.t = "str" -> Len(x.v) > 0
    [] x.t = "num" -> x.v # 0
    [] OTHER -> TRUE

\* a || b
Or(a, b) == IF Truthy(a) THEN a ELSE b

\* o.k, undefined when the object has no such property
Get(o, k) == IF o.t = "obj" /\ k \in DOMAIN o.v THEN o.v[k] ELSE Undefined

\* String(x)
JsString(x) ==
  CASE x.t = "str" -> x.v
    [] x.t = "num" -> NatToString(x.v)
    [] x.t = "undef" -> "undefined"
    [] x.t = "null" -> "null"
    [] x.t = "arr" -> Join([i \in 1..Len(x.v) |-> x.v[i].v], ",")
    [] OTHER -> "[object Object]"

(***************************************************************************)
(* convertToCsv (lines 229-306).                                           *)
(***************************************************************************)
headers ==
  << "AWS Account ID", "Severity", "CVE ID", "CWEs", "EPSS Score",
     "Exploit Available", "Remediation",
     "Resource Type", "Resource ID", "Registry", "Repository Name",
     "Image ID", "Image OS", "Image Tags", "Pushed At" >>

DefaultRemediation ==
  "Upgrade your installed software packages to the proposed fixed version and release."

\* remediationText with the placeholder of the other columns as its default
remediationTextPlaceholder(finding) ==
  LET remediation == Get(finding, "remediation")
      recommendation == Get(remediation, "recommendation")
      text == Get(recommendation, "text")
  IN IF Truthy(remediation) /\ Truthy(recommendation) /\ Truthy(text)
     THEN text ELSE Str("-")

\* lines 252-256: the remediation text, or the default text
remediationText(finding) ==
  LET remediation == Get(finding, "remediation")
      recommendation == Get(remediation, "recommendation")
      text == Get(recommendation, "text")
  IN IF Truthy(remediation) /\ Truthy(recommendation) /\ Truthy(text)
     THEN text ELSE Str(DefaultRemediation)

\* RemediationCell without the replacement of commas
RemediationCellKeepsCommas(finding) == remediationText(finding)

\* line 276: remediationText.replace(/,/g, ';')
RemediationCell(finding) == Str(ReplaceAll(remediationText(finding).v, ",", ";"))

\* (a || []).join('; ') on an array of strings
JoinTags(tags) ==
  IF tags.t = "arr" THEN Str(Join([i \in 1..Len(tags.v) |-> tags.v[i].v], "; "))
  ELSE Str("")

\* lines 241-286: the row of one finding, an array of 15 cells
FindingRow(finding) ==
  LET vulnerability == Or(Get(finding, "packageVulnerabilityDetails"), EmptyObj)
      resources == Get(finding, "resources")
      resource == IF Truthy(resources) /\ resources.t = "arr" /\ Len(resources.v) > 0
                  THEN resources.v[1] ELSE EmptyObj
      vulnerabilityDetails == Or(Get(vulnerability, "vulnerabilityDetails"), EmptyObj)
      cvss == Or(Get(vulnerabilityDetails, "cvss"), EmptyObj)
      cweList == Or(Get(cvss, "cweIds"), Arr(<<>>))
      cweString == IF Len(cweList.v) > 0
                   THEN Str(Join([i \in 1..Len(cweList.v) |-> cweList.v[i].v], ", "))
                   ELSE Str("-")
      epss == Get(vulnerabilityDetails, "epss")
      details == Get(resource, "details")
      image == Get(details, "awsEcrContainerImage")
      hasImage == Truthy(details) /\ Truthy(image)
      imageField(k) == IF hasImage THEN Or(Get(image, k), Str("-")) ELSE Str("-")
      imageTags == IF hasImage
                   THEN Or(JoinTags(Or(Get(image, "imageTags"), Arr(<<>>))), Str("-"))
                   ELSE Str("-")
  IN << Or(Get(finding, "awsAccountId"), Str("-")),
        Or(Get(finding, "severity"), Str("-")),
        Or(Get(vulnerability, "vulnerabilityId"), Str("-")),
        cweString,
        IF Truthy(epss) THEN Or(Get(epss, "score"), Str("-")) ELSE Str("-"),
        Or(Get(finding, "exploitAvailable"), Str("-")),
        RemediationCell(finding),
        Or(Get(resource, "type"), Str("-")),
        Or(Get(resource, "id"), Str("-")),
        imageField("registry"),
        imageField("repositoryName"),
        imageField("imageId"),
        imageField("imageOs"),
        imageTags,
        imageField("pushedAt") >>

\* EscapeCell without the tests for line breaks
EscapeCellNoLineBreaks(cell) ==
  IF cell.t \in {"null", "undef"} THEN ""
  ELSE LET cellStr == JsString(cell)
       IN IF Includes(cellStr, ",") \/ Includes(cellStr, "\"")
          THEN "\"" \o ReplaceAll(cellStr, "\"", "\"\"") \o "\""
          ELSE cellStr

\* EscapeCell wrapping the cell without doubling its double quotes
EscapeCellQuotesNotDoubled(cell) ==
  IF cell.t \in {"null", "undef"} THEN ""
  ELSE LET cellStr == JsString(cell)
       IN IF Includes(cellStr, ",") \/ Includes(cellStr, "\"")
             \/ Includes(cellStr, "\n") \/ Includes(cellStr, "\r")
          THEN "\"" \o cellStr \o "\""
          ELSE cellStr

\* lines 292-304: the escaping pass on one cell
EscapeCell(cell) ==
  IF cell.t \in {"null", "undef"} THEN ""
  ELSE LET cellStr == JsString(cell)
       IN IF Includes(cellStr, ",") \/ Includes(cellStr, "\"")
             \/ Includes(cellStr, "\n") \/ Includes(cellStr, "\r")
          THEN "\"" \o ReplaceAll(cellStr, "\"", "\"\"") \o "\""
          ELSE cellStr

\* line 292-305: one row, escaped and joined with commas
CsvLine(row) == Join([i \in 1..Len(row) |-> EscapeCell(row[i])], ",")

\* lines 241-289: the rows, the header row first
CsvRows(findings) ==
  <<[i \in 1..Len(headers) |-> Str(headers[i])]>>
    \o [i \in 1..Len(findings) |-> FindingRow(findings[i])]

\* lines 229-306
convertToCsv(findings) ==
  IF Len(findings) = 0 THEN Null
  ELSE LET rows == CsvRows(findings)
       IN Str(Join([i \in 1..Len(rows) |-> CsvLine(rows[i])], "\n"))

(***************************************************************************)
(* The environment: what the external commands, the files and the          *)
(* operator can produce.                                                   *)
(***************************************************************************)
\* An external command ends in one of three ways: exec reports an error
\* (non-zero exit) whose message is m; it exits 0 with output JSON.parse
\* rejects with message m; it exits 0 with output that parses to data.
ExecFail(m) == [kind |-> "fail", message |-> m, data |-> Null]
ExecGarbage(m) == [kind |-> "garbage", message |-> m, data |-> Null]
ExecJson(d) == [kind |-> "json", message |-> "", data |-> d]
NoExec == [kind |-> "none", message |-> "", data |-> Null]

\* error.message of a failed exec: "Command failed: <command>\n<stderr>"
FailMessages ==
  { "Command failed: aws inspector2 list-findings\nCould not connect to the endpoint URL",
    "Command failed: aws inspector2 list-findings\nAn error occurred (AccessDeniedException) when calling the ListFindings operation",
    "Command failed: aws inspector2 list-findings\nAn error occurred (UnauthorizedOperation)",
    "Command failed: aws inspector2 list-findings\nan error occurred (accessdenied)" }

\* parseError.message of JSON.parse; newer runtimes quote the rejected text
ParseMessages ==
  { "Unexpected token C in JSON at position 0",
    "Unexpected token 'A', \"AccessDenied\" is not valid JSON" }

\* lines 83-89 and 101-107
defaultRegions ==
  << "us-east-1", "us-east-2", "us-west-1", "us-west-2",
     "ap-south-1", "ap-northeast-3", "ap-northeast-2", "ap-southeast-1",
     "ap-southeast-2", "ap-northeast-1", "ca-central-1", "eu-central-1",
     "eu-west-1", "eu-west-2", "eu-west-3", "eu-north-1",
     "sa-east-1" >>

StrArr(a) == Arr([i \in 1..Len(a) |-> Str(a[i])])

\* what `aws ec2 describe-regions --query "Regions[].RegionName"` can answer
RegionOutcomes ==
  { ExecFail("Command failed: aws ec2 describe-regions\nUnable to locate credentials"),
    ExecGarbage("Unexpected end of JSON input"),
    ExecJson(StrArr(<<"eu-west-1", "us-east-1", "ap-south-1">>)),
    ExecJson(StrArr(<<>>)),
    ExecJson(Null),
    ExecJson(Obj([Regions |-> Arr(<<>>)])) }

\* process.env.AWS_REGION
EnvRegions == { Undefined, Str("us-east-1") }

\* what `aws configure get region` can answer: [error, stdout]
ConfigureOutcomes ==
  { [error |-> TRUE, stdout |-> ""],
    [error |-> FALSE, stdout |-> "\n"],
    [error |-> FALSE, stdout |-> "sa-east-1\n"] }

\* what getAwsProfiles can settle with: a rejection or the list of profiles
ProfileOutcomes ==
  { [ok |-> FALSE, profiles |-> <<>>],
    [ok |-> TRUE, profiles |-> <<>>],
    [ok |-> TRUE, profiles |-> <<"production", "staging">>] }

\* the lines the operator types at a prompt
Lines ==
  { "", "0", "1", "2", "3", "4", "17", "18", "-1", "+1", "01", " 2", "2 ", "1a",
    "a1", "1.5", "a", "two" }

\* findings as inspector2 list-findings returns them in the pipeline
FindingA ==
  Obj([awsAccountId |-> Str("111111111111"), severity |-> Str("CRITICAL"),
       exploitAvailable |-> Str("YES")])
FindingB ==
  Obj([awsAccountId |-> Str("222222222222"), severity |-> Str("HIGH"),
       remediation |-> Obj([recommendation |-> Obj([text |-> Str("Patch, then \"reboot\"")])])])

\* the lists of findings a query returns: up to n findings, alternating
\* between the two, starting with either
FindingLists(n) ==
  {[i \in 1..k |-> IF i % 2 = 1 THEN pair[1] ELSE pair[2]] :
     k \in 0..n, pair \in {<<FindingA, FindingB>>, <<FindingB, FindingA>>}}

\* what a list-findings query can answer
FindingsOutcomes ==
  {ExecFail("Command failed: aws inspector2 list-findings\nCould not connect to the endpoint URL"),
   ExecGarbage("Unexpected end of JSON input")}
    \cup {ExecJson(Obj([findings |-> Arr(l)])) : l \in FindingLists(MaxQueryFindings)}
    \cup {ExecJson(Null), ExecJson(EmptyObj)}

\* what the probe `inspector2 list-findings --max-results 1` can answer
ProbeOutcomes ==
  {ExecFail(m) : m \in FailMessages}
    \cup {ExecGarbage(m) : m \in ParseMessages}
    \cup {ExecJson(Obj([findings |-> Arr(<<>>)])), ExecJson(Obj([findings |-> Arr(<<FindingA>>)]))}

(***************************************************************************)
(* The functions of the program.                                           *)
(***************************************************************************)
\* lines 80-110: what getAwsRegions resolves with, given how exec ended
getAwsRegions(out) ==
  IF out.kind = "fail" THEN StrArr(defaultRegions)
  ELSE IF out.kind = "garbage" THEN StrArr(defaultRegions)
  ELSE out.data

\* lines 124-126: the command line runAwsCommand executes
fullCommand(command, profile, region) ==
  LET profileArg == IF Len(profile) > 0 THEN "--profile " \o profile ELSE ""
      regionArg == IF Len(region) > 0 THEN "--region " \o region ELSE ""
  IN "aws " \o command \o " " \o profileArg \o " " \o regionArg

\* lines 131-149: how the promise of runAwsCommand settles
\* runAwsCommand resolving with null when the output is not JSON
runAwsCommandSwallowsParseError(out) ==
  IF out.kind = "fail"
  THEN [ok |-> FALSE, message |-> "AWS CLI error: " \o out.message, data |-> Null]
  ELSE IF out.kind = "garbage"
  THEN [ok |-> TRUE, message |-> "", data |-> Null]
  ELSE [ok |-> TRUE, message |-> "", data |-> out.data]

runAwsCommand(out) ==
  IF out.kind = "fail"
  THEN [ok |-> FALSE, message |-> "AWS CLI error: " \o out.message, data |-> Null]
  ELSE IF out.kind = "garbage"
  THEN [ok |-> FALSE, message |-> "Failed to parse AWS CLI output: " \o out.message,
        data |-> Null]
  ELSE [ok |-> TRUE, message |-> "", data |-> out.data]

ProbeCommand == "inspector2 list-findings --max-results 1"

\* isInspectorAvailableInRegion without the UnauthorizedOperation test
isInspectorAvailableAccessDeniedOnly(settled) ==
  IF settled.ok THEN TRUE
  ELSE IF Includes(settled.message, "AccessDenied") THEN TRUE
  ELSE FALSE

\* lines 335-348, given how the probe's runAwsCommand settled
isInspectorAvailableInRegion(settled) ==
  IF settled.ok THEN TRUE
  ELSE IF Includes(settled.message, "AccessDenied")
          \/ Includes(settled.message, "UnauthorizedOperation")
  THEN TRUE
  ELSE FALSE

\* lines 169-187: the two commands of a finding type
criticalFilterCommand(findingType) ==
  CASE findingType = "1" ->
         "inspector2 list-findings --filter-criteria '{\"findingStatus\":[{\"comparison\":\"EQUALS\",\"value\":\"ACTIVE\"}],\"severity\":[{\"comparison\":\"EQUALS\",\"value\":\"CRITICAL\"}],\"exploitAvailable\":[{\"comparison\":\"EQUALS\",\"value\":\"YES\"}]}' --max-results 100"
    [] findingType = "2" ->
         "inspector2 list-findings --filter-criteria '{\"findingStatus\":[{\"comparison\":\"EQUALS\",\"value\":\"ACTIVE\"}],\"severity\":[{\"comparison\":\"EQUALS\",\"value\":\"CRITICAL\"}]}' --max-results 100"
    [] findingType = "3" ->
         "inspector2 list-findings --filter-criteria '{\"findingStatus\":[{\"comparison\":\"EQUALS\",\"value\":\"CLOSED\"}],\"severity\":[{\"comparison\":\"EQUALS\",\"value\":\"CRITICAL\"}]}' --max-results 100"
    [] OTHER -> ""

\* highFilterCommand with the closed scenario's status copied from the active one
highFilterCommandActiveOnly(findingType) ==
  CASE findingType = "1" ->
         "inspector2 list-findings --filter-criteria '{\"findingStatus\":[{\"comparison\":\"EQUALS\",\"value\":\"ACTIVE\"}],\"severity\":[{\"comparison\":\"EQUALS\",\"value\":\"HIGH\"}],\"exploitAvailable\":[{\"comparison\":\"EQUALS\",\"value\":\"YES\"}]}' --max-results 100"
    [] findingType = "2" ->
         "inspector2 list-findings --filter-criteria '{\"findingStatus\":[{\"comparison\":\"EQUALS\",\"value\":\"ACTIVE\"}],\"severity\":[{\"comparison\":\"EQUALS\",\"value\":\"HIGH\"}]}' --max-results 100"
    [] findingType = "3" ->
         "inspector2 list-findings --filter-criteria '{\"findingStatus\":[{\"comparison\":\"EQUALS\",\"value\":\"ACTIVE\"}],\"severity\":[{\"comparison\":\"EQUALS\",\"value\":\"HIGH\"}]}' --max-results 100"
    [] OTHER -> ""

highFilterCommand(findingType) ==
  CASE findingType = "1" ->
         "inspector2 list-findings --filter-criteria '{\"findingStatus\":[{\"comparison\":\"EQUALS\",\"value\":\"ACTIVE\"}],\"severity\":[{\"comparison\":\"EQUALS\",\"value\":\"HIGH\"}],\"exploitAvailable\":[{\"comparison\":\"EQUALS\",\"value\":\"YES\"}]}' --max-results 100"
    [] findingType = "2" ->
         "inspector2 list-findings --filter-criteria '{\"findingStatus\":[{\"comparison\":\"EQUALS\",\"value\":\"ACTIVE\"}],\"severity\":[{\"comparison\":\"EQUALS\",\"value\":\"HIGH\"}]}' --max-results 100"
    [] findingType = "3" ->
         "inspector2 list-findings --filter-criteria '{\"findingStatus\":[{\"comparison\":\"EQUALS\",\"value\":\"CLOSED\"}],\"severity\":[{\"comparison\":\"EQUALS\",\"value\":\"HIGH\"}]}' --max-results 100"
    [] OTHER -> ""

\* lines 198-201 and 207-210: the findings a settled query adds
FoundIn(data) ==
  IF Truthy(data) /\ Truthy(Get(data, "findings")) THEN Get(data, "findings").v ELSE <<>>

\* String.prototype.trim
RECURSIVE TrimEnd(_)
TrimEnd(s) ==
  IF Len(s) > 0 /\ IsSpace(CharAt(s, Len(s))) THEN TrimEnd(SubSeq(s, 1, Len(s) - 1)) ELSE s
Trim(s) == TrimEnd(TrimStart(s))

\* lines 367-373: what the exec callback of getDefaultRegion resolves with
getDefaultRegion(out) ==
  IF out.error \/ Len(Trim(out.stdout)) = 0 THEN Null ELSE Str(Trim(out.stdout))

\* Array.prototype.indexOf on an array of strings: 0-based, -1 when absent
IndexOf(a, x) ==
  IF \E i \in 1..Len(a) : a[i] = x
  THEN (CHOOSE i \in 1..Len(a) : a[i] = x /\ \A j \in 1..(i - 1) : a[j] # x) - 1
  ELSE 0 - 1

\* lines 431-436: the list of regions as displayed
DisplayedRegions(defaultRegion, regions) ==
  IF Truthy(defaultRegion) /\ IndexOf(regions, defaultRegion.v) >= 0
  THEN LET defaultIndex == IndexOf(regions, defaultRegion.v)
           spliced == SubSeq(regions, 1, defaultIndex)
                        \o SubSeq(regions, defaultIndex + 2, Len(regions))
       IN <<defaultRegion.v \o " (default)">> \o spliced
  ELSE regions

Invalid(message) == [valid |-> FALSE, value |-> "", message |-> message]
Valid(value) == [valid |-> TRUE, value |-> value, message |-> ""]

\* lines 404-410
profileValidator(answer, options) ==
  LET parsed == ParseInt(answer)
      index == parsed.n - 1
  IN IF parsed.nan \/ index < 0 \/ index >= Len(options)
     THEN Invalid("Invalid profile number. Please try again.")
     ELSE Valid(options[index + 1])

\* regionValidator without lines 450-452
regionValidatorKeepsLabel(answer, regions) ==
  LET parsed == ParseInt(answer)
      index == parsed.n - 1
  IN IF parsed.nan \/ index < 0 \/ index >= Len(regions)
     THEN Invalid("Invalid region number. Please try again.")
     ELSE Valid(regions[index + 1])

\* lines 443-454
regionValidator(answer, regions) ==
  LET parsed == ParseInt(answer)
      index == parsed.n - 1
  IN IF parsed.nan \/ index < 0 \/ index >= Len(regions)
     THEN Invalid("Invalid region number. Please try again.")
     ELSE LET selectedRegion == regions[index + 1]
          IN IF Includes(selectedRegion, " (default)")
             THEN Valid(SplitFirst(selectedRegion, " "))
             ELSE Valid(selectedRegion)

\* lines 481-486
findingTypeValidator(answer) ==
  IF answer \notin {"1", "2", "3"} THEN Invalid("Please enter 1, 2, or 3.")
  ELSE Valid(answer)

\* line 318: validator(answer, options), for the validator the prompt carries
Validate(validator, answer, options) ==
  CASE validator = "profileValidator" -> profileValidator(answer, options)
    [] validator = "regionValidator" -> regionValidator(answer, options)
    [] validator = "findingTypeValidator" -> findingTypeValidator(answer)

NoPrompt == [question |-> "", options |-> <<>>, validator |-> ""]
ProfilePrompt(profiles) ==
  [question |-> "\nSelect a profile (enter number): ", options |-> profiles,
   validator |-> "profileValidator"]
RegionPrompt(regions) ==
  [question |-> "\nSelect a region (enter number): ", options |-> regions,
   validator |-> "regionValidator"]
FindingTypePrompt ==
  [question |-> "\nSelect finding type (enter number): ", options |-> <<>>,
   validator |-> "findingTypeValidator"]

\* promptSelection resolving with the raw answer instead of the validated value
promptSelectionRawAnswer(p, answer) ==
  LET validationResult == Validate(p.validator, answer, p.options)
  IN IF validationResult.valid
     THEN [resolved |-> TRUE, value |-> answer, printed |-> "", next |-> NoPrompt]
     ELSE [resolved |-> FALSE, value |-> "",
           printed |-> IF Len(validationResult.message) > 0
                       THEN validationResult.message
                       ELSE "Invalid selection. Please try again.",
           next |-> p]

\* lines 317-325: the callback of rl.question on one line of input.  Either the
\* promise resolves with the validated value, or a message is printed and
\* promptSelection is called again with `next`.
promptSelection(p, answer) ==
  LET validationResult == Validate(p.validator, answer, p.options)
  IN IF validationResult.valid
     THEN [resolved |-> TRUE, value |-> validationResult.value, printed |-> "",
           next |-> NoPrompt]
     ELSE [resolved |-> FALSE, value |-> "",
           printed |-> IF Len(validationResult.message) > 0
                       THEN validationResult.message
                       ELSE "Invalid selection. Please try again.",
           next |-> p]

\* lines 495-499 and 519-523
typeLabel(findingType) ==
  CASE findingType = "1" -> "priority_active"
    [] findingType = "2" -> "all_active"
    [] findingType = "3" -> "all_closed"

\* new Date().toISOString()
Clock == "2025-01-22T00:18:14.000Z"

\* lines 525-526
fileName(findingType, iso) ==
  "aws_inspector_" \o typeLabel(findingType) \o "_findings_"
    \o SplitFirst(ReplaceAll(iso, ":", "-"), ".") \o ".csv"

\* appendFindings with the two spreads swapped
appendFindingsHighFirst(allFindings, data) == FoundIn(data) \o allFindings

\* lines 207-210: allFindings after the HIGH query settled with data
appendFindings(allFindings, data) == allFindings \o FoundIn(data)

\* readline's Interface.close(): the first call tears the interface down, a
\* later call finds it closed and does nothing.  calls counts the calls of
\* rl.close(), teardowns the times the interface was actually torn down.
rlClose(r) ==
  [closed |-> TRUE, calls |-> r.calls + 1,
   teardowns |-> IF r.closed THEN r.teardowns ELSE r.teardowns + 1]

\* main without the finally block
MainFinallyMissing(r) == r

\* lines 542-545: the finally block of main
MainFinally(r) == rlClose(r)

\* main without the early return of lines 468-472
ProbeNeverAborts(inspectorAvailable) == FALSE

\* line 468: main returns early when the probe says unavailable
ProbeAborts(inspectorAvailable) == ~inspectorAvailable

(***************************************************************************)
(* The state.                                                              *)
(***************************************************************************)
VARIABLES
  pc,              \* where main() is suspended, "done" once it has returned, "exited" after process.exit
  rl,              \* the readline interface (line 16)
  envRegion,       \* process.env.AWS_REGION
  profiles,        \* main: profiles
  selectedProfile, \* main: selectedProfile ("" before it is set)
  defaultRegion,   \* main: defaultRegion
  fetched,         \* what getAwsRegions resolved with
  allRegions,      \* main: allRegions, as displayed
  selectedRegion,  \* main: selectedRegion ("" before it is set)
  probeCommand,    \* the command line of the availability probe ("" before it runs)
  probe,           \* main: inspectorAvailable: "none" before the probe, then "true" or "false"
  findingType,     \* main: findingType ("" before it is set)
  prompt,          \* the pending promptSelection: question, options, validator
  answer,          \* the line the last step read: <<line>>, or <<>> if it read none
  asked,           \* calls of rl.question for the pending (or last) prompt
  printed,         \* messages printed for rejected answers of that prompt
  queries,         \* command lines getInspectorFindings has executed, in order
  inflight,        \* list-findings commands of getInspectorFindings still running
  replies,         \* how the commands of queries ended, in order
  findings,        \* getInspectorFindings: allFindings, then main: findings
  csv,             \* main: csv
  files,           \* files written by fs.writeFileSync: [name, content]
  caught,          \* the message of the error main's catch block caught, <<>> if none
  steps,           \* the steps main has started, in order
  log,             \* main's console messages that end or abort a run
  execOut          \* how describe-regions or the probe's command ended, if the last step ran its callback

vars ==
  << pc, rl, envRegion, profiles, selectedProfile, defaultRegion, fetched, allRegions,
     selectedRegion, probeCommand, probe, findingType, prompt, answer, asked, printed, queries,
     inflight, replies, findings, csv, files, caught, steps, log, execOut >>

selectionVars == <<profiles, selectedProfile, defaultRegion, fetched, allRegions,
                   selectedRegion, probeCommand, probe, findingType>>
retrievalVars == <<queries, inflight, replies, findings>>
exportVars == <<csv, files>>

Waiting ==
  { "promptProfile", "getDefaultRegion", "getAwsRegions", "promptRegion",
    "isInspectorAvailableInRegion", "promptFindingType", "critical", "high" }

Init ==
  /\ pc = "start"
  /\ rl = [closed |-> FALSE, calls |-> 0, teardowns |-> 0]
  /\ envRegion \in EnvRegions
  /\ profiles = <<>>
  /\ selectedProfile = ""
  /\ defaultRegion = Undefined
  /\ fetched = Undefined
  /\ allRegions = <<>>
  /\ selectedRegion = ""
  /\ probeCommand = ""
  /\ probe = "none"
  /\ findingType = ""
  /\ prompt = NoPrompt
  /\ answer = <<>>
  /\ asked = 0
  /\ printed = <<>>
  /\ queries = <<>>
  /\ inflight = 0
  /\ replies = <<>>
  /\ findings = <<>>
  /\ csv = Undefined
  /\ files = <<>>
  /\ caught = <<>>
  /\ steps = <<>>
  /\ log = <<>>
  /\ execOut = NoExec

(***************************************************************************)
(* The ways main() ends.                                                   *)
(***************************************************************************)
\* main returns (or falls off its end): the finally block runs
Return(r, messages) ==
  /\ rl' = MainFinally(r)
  /\ log' = log \o messages
  /\ pc' = "done"
  /\ prompt' = NoPrompt
  /\ caught' = caught

\* an error reaches the catch block of main (lines 540-541), then finally
Catch(message) ==
  /\ rl' = MainFinally(rl)
  /\ log' = Append(log, "An error occurred:")
  /\ pc' = "done"
  /\ prompt' = NoPrompt
  /\ caught' = <<message>>

NoAnswer == /\ answer' = <<>> /\ asked' = 0 /\ printed' = <<>>
Ask(p) == /\ prompt' = p /\ answer' = <<>> /\ asked' = 1 /\ printed' = <<>>

(***************************************************************************)
(* The steps of main(), one per callback of an external command or of      *)
(* rl.question: each runs main to its next suspension.                     *)
(***************************************************************************)
\* lines 385-417: main up to the profile prompt
GetAwsProfiles ==
  /\ pc = "start"
  /\ execOut' = NoExec
  /\ \E out \in ProfileOutcomes :
       IF ~out.ok
       THEN /\ Catch("Could not determine home directory")
            /\ NoAnswer
            /\ steps' = Append(steps, "getAwsProfiles")
            /\ UNCHANGED <<envRegion, selectionVars, retrievalVars, exportVars>>
       ELSE IF Len(out.profiles) = 0
       THEN /\ Return(rlClose(rl),
                      <<"No AWS profiles found. Please configure your AWS CLI first.">>)
            /\ NoAnswer
            /\ steps' = Append(steps, "getAwsProfiles")
            /\ UNCHANGED <<envRegion, selectionVars, retrievalVars, exportVars>>
       ELSE /\ profiles' = out.profiles
            /\ Ask(ProfilePrompt(out.profiles))
            /\ pc' = "promptProfile"
            /\ steps' = steps \o <<"getAwsProfiles", "promptProfile">>
            /\ UNCHANGED <<rl, envRegion, selectedProfile, defaultRegion, fetched,
                           allRegions, selectedRegion, probeCommand, probe, findingType,
                           retrievalVars, exportVars, caught, log>>

\* lines 419-426 and 355-365: after the profile prompt resolved
AfterProfile(value) ==
  /\ selectedProfile' = value
  /\ IF Truthy(envRegion)
     THEN /\ defaultRegion' = envRegion
          /\ pc' = "getAwsRegions"
          /\ steps' = steps \o <<"getDefaultRegion", "getAwsRegions">>
     ELSE /\ defaultRegion' = defaultRegion
          /\ pc' = "getDefaultRegion"
          /\ steps' = Append(steps, "getDefaultRegion")
  /\ UNCHANGED <<rl, envRegion, profiles, fetched, allRegions, selectedRegion,
                 probeCommand, probe, findingType, retrievalVars, exportVars, caught, log>>

\* lines 462-466: after the region prompt resolved
AfterRegion(value) ==
  /\ selectedRegion' = value
  /\ probeCommand' = fullCommand(ProbeCommand, selectedProfile, value)
  /\ pc' = "isInspectorAvailableInRegion"
  /\ steps' = Append(steps, "isInspectorAvailableInRegion")
  /\ UNCHANGED <<rl, envRegion, profiles, selectedProfile, defaultRegion, fetched,
                 allRegions, probe, findingType, retrievalVars, exportVars, caught, log>>

\* lines 495-505 and 160-196: after the finding type prompt resolved,
\* getInspectorFindings up to its first await
AfterFindingType(value) ==
  /\ findingType' = value
  /\ steps' = Append(steps, "getInspectorFindings")
  /\ IF value \in {"1", "2", "3"}
     THEN /\ queries' = Append(queries,
                 fullCommand(criticalFilterCommand(value), selectedProfile, selectedRegion))
          /\ inflight' = inflight + 1
          /\ pc' = "critical"
          /\ UNCHANGED <<rl, caught, log>>
     ELSE /\ rl' = MainFinally(rl)
          /\ log' = Append(log, "An error occurred:")
          /\ pc' = "done"
          /\ caught' = <<"Invalid finding type">>
          /\ UNCHANGED <<queries, inflight>>
  /\ UNCHANGED <<envRegion, profiles, selectedProfile, defaultRegion, fetched,
                 allRegions, selectedRegion, probeCommand, probe, replies, findings,
                 exportVars>>

\* lines 317-325: one line of input arrives at the pending rl.question
Answer ==
  /\ pc \in {"promptProfile", "promptRegion", "promptFindingType"}
  /\ execOut' = NoExec
  /\ \E line \in Lines :
       LET r == promptSelection(prompt, line)
       IN /\ answer' = <<line>>
          /\ IF ~r.resolved
             THEN /\ Len(printed) < MaxRetries
                  /\ printed' = Append(printed, r.printed)
                  /\ prompt' = r.next
                  /\ asked' = asked + 1
                  /\ UNCHANGED <<pc, rl, envRegion, selectionVars, retrievalVars,
                                 exportVars, caught, steps, log>>
             ELSE /\ printed' = printed
                  /\ asked' = asked
                  /\ prompt' = r.next
                  /\ CASE pc = "promptProfile" -> AfterProfile(r.value)
                       [] pc = "promptRegion" -> AfterRegion(r.value)
                       [] pc = "promptFindingType" -> AfterFindingType(r.value)

\* lines 367-373 and 425-426: `aws configure get region` ended
ConfigureDone ==
  /\ pc = "getDefaultRegion"
  /\ \E out \in ConfigureOutcomes :
       /\ defaultRegion' = getDefaultRegion(out)
       /\ execOut' = NoExec
  /\ pc' = "getAwsRegions"
  /\ steps' = Append(steps, "getAwsRegions")
  /\ NoAnswer
  /\ UNCHANGED <<rl, envRegion, profiles, selectedProfile, fetched, allRegions,
                 selectedRegion, probeCommand, probe, findingType, prompt, retrievalVars,
                 exportVars, caught, log>>

\* lines 80-110 and 428-460: `aws ec2 describe-regions` ended
DescribeRegionsDone ==
  /\ pc = "getAwsRegions"
  /\ \E out \in RegionOutcomes :
       LET regions == getAwsRegions(out)
       IN /\ execOut' = out
          /\ fetched' = regions
          /\ IF regions.t # "arr"
             THEN \* allRegions.includes / allRegions.forEach is not a function
                  /\ Catch("TypeError")
                  /\ NoAnswer
                  /\ UNCHANGED <<allRegions, steps>>
             ELSE LET names == [i \in 1..Len(regions.v) |-> regions.v[i].v]
                  IN /\ allRegions' = DisplayedRegions(defaultRegion, names)
                     /\ Ask(RegionPrompt(allRegions'))
                     /\ pc' = "promptRegion"
                     /\ steps' = Append(steps, "promptRegion")
                     /\ UNCHANGED <<rl, caught, log>>
  /\ UNCHANGED <<envRegion, profiles, selectedProfile, defaultRegion, selectedRegion,
                 probeCommand, probe, findingType, retrievalVars, exportVars>>

\* lines 335-348 and 466-493: the probe's command ended
ProbeDone ==
  /\ pc = "isInspectorAvailableInRegion"
  /\ \E out \in ProbeOutcomes :
       LET inspectorAvailable == isInspectorAvailableInRegion(runAwsCommand(out))
       IN /\ execOut' = out
          /\ probe' = IF inspectorAvailable THEN "true" ELSE "false"
          /\ IF ProbeAborts(inspectorAvailable)
             THEN /\ Return(rlClose(rl), <<"AWS Inspector is not available in the region.">>)
                  /\ NoAnswer
                  /\ steps' = steps
             ELSE /\ Ask(FindingTypePrompt)
                  /\ pc' = "promptFindingType"
                  /\ steps' = Append(steps, "promptFindingType")
                  /\ UNCHANGED <<rl, caught, log>>
  /\ UNCHANGED <<envRegion, profiles, selectedProfile, defaultRegion, fetched, allRegions,
                 selectedRegion, probeCommand, findingType, retrievalVars, exportVars>>

\* lines 196-205 and 218-221: the CRITICAL query's command ended
CriticalDone ==
  /\ pc = "critical"
  /\ execOut' = NoExec
  /\ NoAnswer
  /\ \E out \in FindingsOutcomes :
       LET settled == runAwsCommand(out)
       IN /\ replies' = Append(replies, out)
          /\ IF ~settled.ok
             THEN /\ Catch(settled.message)
                  /\ inflight' = inflight - 1
                  /\ UNCHANGED <<queries, findings>>
             ELSE /\ findings' = FoundIn(settled.data)
                  /\ queries' = Append(queries,
                        fullCommand(highFilterCommand(findingType), selectedProfile,
                                    selectedRegion))
                  /\ inflight' = inflight - 1 + 1
                  /\ pc' = "high"
                  /\ UNCHANGED <<rl, prompt, caught, log>>
  /\ UNCHANGED <<envRegion, selectionVars, exportVars, steps>>

\* lines 205-221 and 505-545: the HIGH query's command ended; main exports
HighDone ==
  /\ pc = "high"
  /\ execOut' = NoExec
  /\ NoAnswer
  /\ inflight' = inflight - 1
  /\ \E out \in FindingsOutcomes :
       LET settled == runAwsCommand(out)
           all == appendFindings(findings, settled.data)
       IN /\ replies' = Append(replies, out)
          /\ IF ~settled.ok
             THEN /\ Catch(settled.message)
                  /\ UNCHANGED <<findings, csv, files, steps>>
             ELSE /\ findings' = all
                  /\ IF Len(all) > 0
                     THEN /\ csv' = convertToCsv(all)
                          /\ IF ~Truthy(csv')
                             THEN /\ Return(rlClose(rl), <<"Error generating CSV content.">>)
                                  /\ steps' = Append(steps, "convertToCsv")
                                  /\ files' = files
                             ELSE /\ steps' = steps \o <<"convertToCsv", "writeFileSync">>
                                  /\ \E written \in BOOLEAN :
                                       IF written
                                       THEN /\ files' = Append(files,
                                                  [name |-> fileName(findingType, Clock),
                                                   content |-> csv'.v])
                                            /\ Return(rl, <<"Report generated successfully">>)
                                       ELSE /\ files' = files
                                            /\ Return(rl, <<"Error writing CSV file">>)
                     ELSE /\ Return(rl, <<"No findings to export.">>)
                          /\ UNCHANGED <<csv, files, steps>>
  /\ UNCHANGED <<envRegion, selectionVars, queries>>

\* lines 549-553: the SIGINT handler; it runs between callbacks, while the
\* process waits for a command or for a line
Sigint ==
  /\ pc \in Waiting
  /\ rl' = rlClose(rl)
  /\ log' = Append(log, "Process interrupted. Cleaning up...")
  /\ pc' = "exited"
  /\ execOut' = NoExec
  /\ NoAnswer
  /\ UNCHANGED <<envRegion, selectionVars, prompt, retrievalVars, exportVars, caught, steps>>

Next ==
  \/ GetAwsProfiles
  \/ Answer
  \/ ConfigureDone
  \/ DescribeRegionsDone
  \/ ProbeDone
  \/ CriticalDone
  \/ HighDone
  \/ Sigint

Spec == Init /\ [][Next]_vars

(***************************************************************************)
(* convertToCsv on its own: the serializer applied to lists of findings    *)
(* that exercise every branch of the row mapping and of the escaping pass. *)
(***************************************************************************)
EcrImage ==
  Obj([registry |-> Str("123456789012"), repositoryName |-> Str("web/app"),
       imageId |-> Str("sha256:0a1b"), imageOs |-> Str("AMAZON_LINUX_2"),
       imageTags |-> Arr(<<Str("latest"), Str("v1")>>), pushedAt |-> Str("2025-01-21T10:00:00")])

CsvFindings ==
  << \* every optional field absent
     EmptyObj,
     \* every field present, no character that needs quoting
     Obj([awsAccountId |-> Str("100000000001"), severity |-> Str("CRITICAL"),
          exploitAvailable |-> Str("YES"),
          packageVulnerabilityDetails |->
            Obj([vulnerabilityId |-> Str("CVE-2024-0001"),
                 vulnerabilityDetails |->
                   Obj([cvss |-> Obj([cweIds |-> Arr(<<Str("CWE-79")>>)]),
                        epss |-> Obj([score |-> Num(1)])])]),
          remediation |-> Obj([recommendation |-> Obj([text |-> Str("Update openssl")])]),
          resources |-> Arr(<<Obj([type |-> Str("AWS_ECR_CONTAINER_IMAGE"),
                                   id |-> Str("arn:aws:ecr:us-east-1:1:repository/web"),
                                   details |-> Obj([awsEcrContainerImage |-> EcrImage])])>>)]),
     \* a comma in the remediation text; two CWEs
     Obj([awsAccountId |-> Str("100000000002"), severity |-> Str("HIGH"),
          packageVulnerabilityDetails |->
            Obj([vulnerabilityDetails |->
                   Obj([cvss |-> Obj([cweIds |-> Arr(<<Str("CWE-79"), Str("CWE-89")>>)]),
                        epss |-> Obj([score |-> Num(0)])])]),
          remediation |-> Obj([recommendation |-> Obj([text |-> Str("Update a, b, c")])])]),
     \* double quotes in the remediation text
     Obj([awsAccountId |-> Str("100000000003"),
          remediation |-> Obj([recommendation |-> Obj([text |-> Str("Run \"yum update\"")])])]),
     \* line breaks in the remediation text; an empty list of resources
     Obj([awsAccountId |-> Str("100000000004"),
          remediation |-> Obj([recommendation |-> Obj([text |-> Str("Stop\r\nPatch\nStart")])]),
          resources |-> Arr(<<>>)]),
     \* a resource without details, its id holding a comma and a quote
     Obj([awsAccountId |-> Str("100000000005"),
          packageVulnerabilityDetails |-> Obj([vulnerabilityDetails |-> Obj([epss |-> EmptyObj])]),
          remediation |-> Obj([recommendation |-> EmptyObj]),
          resources |-> Arr(<<Obj([type |-> Str("AWS_EC2_INSTANCE"), id |-> Str("i-0a,\"b\"")])>>)]),
     \* an image with only some fields, a tag holding a comma, an empty list of CWEs
     Obj([severity |-> Str("HIGH"),
          packageVulnerabilityDetails |->
            Obj([vulnerabilityDetails |-> Obj([cvss |-> Obj([cweIds |-> Arr(<<>>)])])]),
          remediation |-> EmptyObj,
          resources |-> Arr(<<Obj([details |->
                            Obj([awsEcrContainerImage |->
                                   Obj([repositoryName |-> Str("web\napp"),
                                        imageTags |-> Arr(<<Str("a,b"), Str("c")>>)])])])>>)]),
     \* an image without tags, details of another resource type
     Obj([awsAccountId |-> Str("100000000007"),
          resources |-> Arr(<<Obj([details |-> Obj([awsEcrContainerImage |-> Obj([imageTags |-> Arr(<<>>)])])]),
                              Obj([id |-> Str("second")])>>)]),
     \* a comma and double quotes in the remediation text; a carriage return
     \* alone in the resource id
     Obj([awsAccountId |-> Str("100000000008"),
          remediation |-> Obj([recommendation |-> Obj([text |-> Str("Set \"a\", then b")])]),
          resources |-> Arr(<<Obj([id |-> Str("i-0c\r")])>>)]) >>

\* the state before convertToCsv is called on the findings
InitCsv ==
  /\ pc = "convertToCsv"
  /\ \E n \in 0..MaxCsvFindings :
       \E pick \in [1..n -> 1..Len(CsvFindings)] :
         findings = [i \in 1..n |-> CsvFindings[pick[i]]]
  /\ csv = Undefined
  /\ rl = [closed |-> FALSE, calls |-> 0, teardowns |-> 0]
  /\ envRegion = Undefined
  /\ profiles = <<>>
  /\ selectedProfile = ""
  /\ defaultRegion = Undefined
  /\ fetched = Undefined
  /\ allRegions = <<>>
  /\ selectedRegion = ""
  /\ probeCommand = ""
  /\ probe = "none"
  /\ findingType = ""
  /\ prompt = NoPrompt
  /\ answer = <<>>
  /\ asked = 0
  /\ printed = <<>>
  /\ queries = <<>>
  /\ inflight = 0
  /\ replies = <<>>
  /\ files = <<>>
  /\ caught = <<>>
  /\ steps = <<>>
  /\ log = <<>>
  /\ execOut = NoExec

\* line 510: const csv = convertToCsv(findings)
ConvertToCsvCall ==
  /\ pc = "convertToCsv"
  /\ csv' = convertToCsv(findings)
  /\ pc' = "converted"
  /\ UNCHANGED <<rl, envRegion, selectionVars, prompt, answer, asked, printed,
                 retrievalVars, files, caught, steps, log, execOut>>

NextCsv == ConvertToCsvCall

SpecCsv == InitCsv /\ [][NextCsv]_vars

\* A reader of comma-separated values (RFC 4180): cells are separated by
\* commas, rows by line feeds; a cell that starts with a double quote runs to
\* its closing quote, a doubled quote inside it standing for one quote.

\* the least position from i on where p holds, Len(s) + 1 if there is none
FirstFrom(s, i, p(_)) ==
  IF \E j \in i..Len(s) : p(j)
  THEN CHOOSE j \in i..Len(s) : p(j) /\ \A k \in i..(j - 1) : ~p(k)
  ELSE Len(s) + 1

\* the closing quote of the quoted cell that opens at position i: the first
\* quote after i that is not half of a doubled quote
ClosingQuote(s, i) ==
  LET quotesIn(j) == Cardinality({k \in (i + 1)..j : CharAt(s, k) = "\""})
      closes(j) == /\ CharAt(s, j) = "\""
                   /\ quotesIn(j) % 2 = 1
                   /\ (j = Len(s) \/ CharAt(s, j + 1) # "\"")
  IN FirstFrom(s, i + 1, closes)

\* the text of a quoted cell: every doubled quote is one quote
RECURSIVE Unquote(_)
Unquote(t) ==
  IF Len(t) = 0 THEN ""
  ELSE IF Len(t) >= 2 /\ SubSeq(t, 1, 2) = "\"\"" THEN "\"" \o Unquote(SubSeq(t, 3, Len(t)))
  ELSE Head(t) \o Unquote(Tail(t))

\* the rows read from position i on, the cells of the current row so far in
\* row and the rows before it in rows
RECURSIVE ReadCsv(_, _, _, _)
ReadCsv(s, i, row, rows) ==
  LET isQuoted == i <= Len(s) /\ CharAt(s, i) = "\""
      close == ClosingQuote(s, i)
      delimiter(j) == CharAt(s, j) \in {",", "\n"}
      end == IF isQuoted THEN FirstFrom(s, close + 1, delimiter) ELSE FirstFrom(s, i, delimiter)
      cell == IF isQuoted
              THEN Unquote(SubSeq(s, i + 1, close - 1)) \o SubSeq(s, close + 1, end - 1)
              ELSE SubSeq(s, i, end - 1)
  IN IF end > Len(s) THEN Append(rows, Append(row, cell))
     ELSE IF CharAt(s, end) = "," THEN ReadCsv(s, end + 1, Append(row, cell), rows)
     ELSE ReadCsv(s, end + 1, <<>>, Append(rows, Append(row, cell)))

\* the rows of the CSV text convertToCsv returned
Records == ReadCsv(csv.v, 1, <<>>, <<>>)

\* the account id of a finding, as its row shows it
AccountOf(finding) ==
  IF "awsAccountId" \in DOMAIN finding.v THEN finding.v.awsAccountId.v ELSE "-"

Converted == pc = "converted"

\* C9: convertToCsv returns null for no findings; for n findings it returns
\* n+1 rows: the header row of the 15 column names, then one row per finding
\* in the order of the findings, each of exactly 15 cells.
C9_OneRowPerFinding ==
  Converted =>
    IF Len(findings) = 0 THEN csv.t = "null"
    ELSE LET read == Records
         IN /\ csv.t = "str"
            /\ Len(read) = Len(findings) + 1
            /\ Len(headers) = 15
            /\ read[1] = headers
            /\ \A i \in 1..Len(read) : Len(read[i]) = 15
            /\ \A i \in 1..Len(findings) : read[i + 1][1] = AccountOf(findings[i])

C9_Witness ==
  /\ Converted
  /\ Len(findings) = 2
  /\ AccountOf(findings[1]) = "100000000004"
  /\ AccountOf(findings[2]) = "100000000005"
  /\ Len(Records) = 3
  /\ Records[3][9] = "i-0a,\"b\""

\* the finding has none of its optional fields
AllAbsent(finding) == DOMAIN finding.v = {}

\* C10 as stated: for a finding with all optional fields absent, every one of
\* the 15 cells of its row is the placeholder "-", the Remediation cell too.
C10_AllPlaceholders ==
  Converted =>
    LET read == Records
    IN \A i \in 1..Len(findings) :
         AllAbsent(findings[i]) => \A j \in 1..15 : read[i + 1][j] = "-"

\* C10 amended: for a finding with all optional fields absent, every cell of
\* its row is the placeholder "-" except the Remediation cell (the 7th),
\* which is the default remediation text.
C10_PlaceholdersButRemediation ==
  Converted =>
    LET read == Records
    IN \A i \in 1..Len(findings) :
         AllAbsent(findings[i]) =>
           /\ Len(read[i + 1]) = 15
           /\ \A j \in (1..15) \ {7} : read[i + 1][j] = "-"
           /\ read[1][7] = "Remediation"
           /\ read[i + 1][7] =
                "Upgrade your installed software packages to the proposed fixed version and release."

C10_Witness ==
  /\ Converted /\ Len(findings) = 2 /\ AllAbsent(findings[2]) /\ ~AllAbsent(findings[1])

\* The cells of the CSV text as they are written, quotes included: the same
\* reader, keeping each cell from its first character to its delimiter.
RECURSIVE ReadRawCsv(_, _, _, _)
ReadRawCsv(s, i, row, rows) ==
  LET isQuoted == i <= Len(s) /\ CharAt(s, i) = "\""
      close == ClosingQuote(s, i)
      delimiter(j) == CharAt(s, j) \in {",", "\n"}
      end == IF isQuoted THEN FirstFrom(s, close + 1, delimiter) ELSE FirstFrom(s, i, delimiter)
      cell == SubSeq(s, i, end - 1)
  IN IF end > Len(s) THEN Append(rows, Append(row, cell))
     ELSE IF CharAt(s, end) = "," THEN ReadRawCsv(s, end + 1, Append(row, cell), rows)
     ELSE ReadRawCsv(s, end + 1, <<>>, Append(rows, Append(row, cell)))

\* the written cells of the CSV text convertToCsv returned
RawRecords == ReadRawCsv(csv.v, 1, <<>>, <<>>)

\* the finding has a remediation text
HasText(finding) ==
  /\ "remediation" \in DOMAIN finding.v
  /\ "recommendation" \in DOMAIN finding.v.remediation.v
  /\ "text" \in DOMAIN finding.v.remediation.v.recommendation.v

TextOf(finding) == finding.v.remediation.v.recommendation.v.text.v

HasChar(s, c) == \E k \in 1..Len(s) : CharAt(s, k) = c

\* cell is text with every comma replaced by a semicolon, nothing else changed
CommasToSemicolons(text, cell) ==
  /\ Len(cell) = Len(text)
  /\ \A k \in 1..Len(text) :
       CharAt(cell, k) = (IF CharAt(text, k) = "," THEN ";" ELSE CharAt(text, k))

\* the written cell is a quoted cell
IsQuotedCell(raw) == Len(raw) >= 2 /\ CharAt(raw, 1) = "\"" /\ CharAt(raw, Len(raw)) = "\""

\* C11 as stated: for any finding whose remediation text contains a comma,
\* the Remediation cell of its row, as written, is the text with every comma
\* replaced by a semicolon, and it is not a quoted cell.
C11_CommaCellNeverQuoted ==
  Converted =>
    LET written == RawRecords
    IN \A i \in 1..Len(findings) :
         (HasText(findings[i]) /\ HasChar(TextOf(findings[i]), ",")) =>
           /\ CommasToSemicolons(TextOf(findings[i]), written[i + 1][7])
           /\ ~IsQuotedCell(written[i + 1][7])

\* C11 amended: for any finding whose remediation text contains a comma, the
\* Remediation cell of its row reads as the text with every comma replaced by
\* a semicolon, and no comma is left to trigger quoting: the cell is a quoted
\* cell exactly when the text also contains a double quote, a line feed or a
\* carriage return, and is otherwise written as the substituted text itself.
C11_CommaSubstitutedBeforeQuoting ==
  Converted =>
    LET written == RawRecords
        read == Records
    IN \A i \in 1..Len(findings) :
         (HasText(findings[i]) /\ HasChar(TextOf(findings[i]), ",")) =>
           LET text == TextOf(findings[i])
               raw == written[i + 1][7]
               othersQuote == HasChar(text, "\"") \/ HasChar(text, "\n") \/ HasChar(text, "\r")
           IN /\ read[1][7] = "Remediation"
              /\ CommasToSemicolons(text, read[i + 1][7])
              /\ ~HasChar(read[i + 1][7], ",")
              /\ (IsQuotedCell(raw) <=> othersQuote)
              /\ (~othersQuote => CommasToSemicolons(text, raw))

C11_Witness ==
  /\ Converted
  /\ Len(findings) = 2
  /\ HasText(findings[1]) /\ TextOf(findings[1]) = "Update a, b, c"
  /\ HasText(findings[2]) /\ TextOf(findings[2]) = "Set \"a\", then b"
  /\ RawRecords[2][7] = "Update a; b; c"
  /\ RawRecords[3][7] = "\"Set \"\"a\"\"; then b\""

\* t with every double quote doubled
RECURSIVE Doubled(_)
Doubled(t) ==
  IF Len(t) = 0 THEN ""
  ELSE (IF Head(t) = "\"" THEN "\"\"" ELSE Head(t)) \o Doubled(Tail(t))

\* t wrapped in double quotes, its double quotes doubled
Wrapped(t) == "\"" \o Doubled(t) \o "\""

\* t contains a comma, a double quote or a line break (LF or CR)
NeedsQuoting(t) ==
  HasChar(t, ",") \/ HasChar(t, "\"") \/ HasChar(t, "\n") \/ HasChar(t, "\r")

\* the text of a cell of the rows array, before the escaping pass
CellText(cell) == JsString(cell)

\* the escaping pass writes a cell wrapped exactly when it contains a comma,
\* a double quote or a line break, and unchanged otherwise
EscapingRule ==
  LET raw == RawRecords
      rows == CsvRows(findings)
  IN /\ Len(raw) = Len(findings) + 1
     /\ \A i \in 1..Len(raw) :
          /\ Len(raw[i]) = 15
          /\ \A j \in 1..15 :
               LET text == CellText(rows[i][j])
               IN raw[i][j] = (IF NeedsQuoting(text) THEN Wrapped(text) ELSE text)

\* C12 as stated: for any finding whose remediation text contains a double
\* quote, the Remediation cell of its row is the text wrapped in double quotes
\* with every embedded double quote doubled; and the escaping pass wraps a
\* cell exactly when it contains a comma, a double quote or a newline, and
\* writes it unchanged otherwise.
C12_TextWrappedQuotesDoubled ==
  (Converted /\ Len(findings) > 0) =>
    /\ EscapingRule
    /\ LET written == RawRecords
       IN \A i \in 1..Len(findings) :
            (HasText(findings[i]) /\ HasChar(TextOf(findings[i]), "\"")) =>
              written[i + 1][7] = Wrapped(TextOf(findings[i]))

\* C12 amended: for any finding whose remediation text contains a double
\* quote, the Remediation cell of its row is the text, its commas already
\* replaced by semicolons, wrapped in double quotes with every embedded
\* double quote doubled; and the escaping pass wraps a cell exactly when it
\* contains a comma, a double quote, a line feed or a carriage return, and
\* writes it unchanged otherwise.
C12_CellWrappedQuotesDoubled ==
  (Converted /\ Len(findings) > 0) =>
    /\ EscapingRule
    /\ LET written == RawRecords
           read == Records
       IN \A i \in 1..Len(findings) :
            (HasText(findings[i]) /\ HasChar(TextOf(findings[i]), "\"")) =>
              /\ CommasToSemicolons(TextOf(findings[i]), read[i + 1][7])
              /\ written[i + 1][7] = Wrapped(read[i + 1][7])
              /\ (~HasChar(TextOf(findings[i]), ",") =>
                    written[i + 1][7] = Wrapped(TextOf(findings[i])))

C12_Witness ==
  /\ Converted
  /\ Len(findings) = 2
  /\ HasText(findings[1]) /\ TextOf(findings[1]) = "Run \"yum update\""
  /\ RawRecords[2][7] = "\"Run \"\"yum update\"\"\""
  /\ RawRecords[2][1] = "100000000003"
  /\ AccountOf(findings[2]) = "100000000008"
  /\ RawRecords[3][9] = "\"i-0c\r\""

(***************************************************************************)
(* Finding retrieval.                                                      *)
(***************************************************************************)
\* the filter of command line c holds the predicate key EQUALS value
HasPredicate(c, key, value) ==
  Includes(c, "\"" \o key \o "\":[{\"comparison\":\"EQUALS\",\"value\":\"" \o value \o "\"}]")

\* c is a list-findings query of the given severity for the finding type t
IsQueryFor(c, t, severity) ==
  LET status == IF t = "3" THEN "CLOSED" ELSE "ACTIVE"
      other == IF t = "3" THEN "ACTIVE" ELSE "CLOSED"
      otherSeverity == IF severity = "CRITICAL" THEN "HIGH" ELSE "CRITICAL"
  IN /\ SubSeq(c, 1, 28) = "aws inspector2 list-findings"
     /\ HasPredicate(c, "severity", severity)
     /\ ~HasPredicate(c, "severity", otherSeverity)
     /\ HasPredicate(c, "findingStatus", status)
     /\ ~HasPredicate(c, "findingStatus", other)
     /\ (t = "1" => HasPredicate(c, "exploitAvailable", "YES"))
     /\ (t # "1" => ~Includes(c, "exploitAvailable"))

\* the queries issued so far are the CRITICAL one, then the HIGH one
QueriesInOrder ==
  /\ Len(queries) <= 2
  /\ Len(queries) >= 1 => IsQueryFor(queries[1], findingType, "CRITICAL")
  /\ Len(queries) = 2 => IsQueryFor(queries[2], findingType, "HIGH")

\* at most one query runs at a time, and a query starts only after every
\* earlier one has ended
QueriesSequential ==
  /\ inflight \in {0, 1}
  /\ pc # "exited" => Len(queries) = Len(replies) + inflight
  /\ Len(queries) = 2 => (Len(replies) >= 1 /\ replies[1].kind = "json")

\* getInspectorFindings has settled
RetrievalEnded == pc = "done" /\ findingType # ""

\* C1 as stated: for each of the three scenarios getInspectorFindings issues
\* exactly two list-findings queries, one after the other, CRITICAL then HIGH,
\* with the scenario's status predicate and, for scenario 1 only, the
\* exploitAvailable=YES predicate.
C1_ExactlyTwoQueries ==
  RetrievalEnded => (Len(queries) = 2 /\ QueriesInOrder /\ QueriesSequential)

\* C1 amended: getInspectorFindings issues the CRITICAL query first and, only
\* once it has ended and only if it succeeded, the HIGH query: exactly two
\* queries when the CRITICAL query succeeds, exactly one when it fails; the
\* predicates are as stated.
C1_QueriesInSequence ==
  /\ QueriesInOrder
  /\ QueriesSequential
  /\ findingType = "" => queries = <<>>
  /\ findingType # "" => Len(queries) >= 1
  /\ (Len(replies) >= 1 /\ replies[1].kind = "json") => Len(queries) = 2
  /\ (Len(replies) >= 1 /\ replies[1].kind # "json") => (Len(queries) = 1 /\ pc = "done")

C1_Witness ==
  /\ RetrievalEnded /\ findingType = "3" /\ Len(queries) = 2 /\ Len(replies) = 2

\* the findings a reply carries: those of its "findings" field, none without one
ReturnedBy(out) ==
  IF out.kind = "json" /\ out.data.t = "obj" /\ "findings" \in DOMAIN out.data.v
  THEN out.data.v.findings.v ELSE <<>>

\* C2: when both queries succeed, getInspectorFindings returns the CRITICAL
\* query's findings followed by the HIGH query's findings, each in the order
\* returned, nothing dropped or duplicated; empty when neither returned any.
C2_CriticalThenHigh ==
  (Len(replies) = 2 /\ replies[1].kind = "json" /\ replies[2].kind = "json")
    => findings = ReturnedBy(replies[1]) \o ReturnedBy(replies[2])

C2_Witness ==
  /\ Len(replies) = 2
  /\ Len(ReturnedBy(replies[1])) = 2
  /\ Len(ReturnedBy(replies[2])) = 2
  /\ Len(findings) = 4
  /\ findings[1].v.severity.v = "HIGH"
  /\ findings[3].v.severity.v = "CRITICAL"

(***************************************************************************)
(* The export of the findings.                                             *)
(***************************************************************************)
\* both queries have ended and both succeeded
BothSucceeded ==
  Len(replies) = 2 /\ replies[1].kind = "json" /\ replies[2].kind = "json"

\* a query has failed: its command failed or its output was not JSON
SomeFailed == \E i \in 1..Len(replies) : replies[i].kind # "json"

\* the findings the queries that have ended returned, together
TotalReturned ==
  (IF Len(replies) >= 1 THEN Len(ReturnedBy(replies[1])) ELSE 0)
    + (IF Len(replies) >= 2 THEN Len(ReturnedBy(replies[2])) ELSE 0)

\* the message a failed query's error carries to the top level
WrappedBy(out) ==
  IF out.kind = "fail" THEN "AWS CLI error: " \o out.message
  ELSE "Failed to parse AWS CLI output: " \o out.message

LastOf(a) == a[Len(a)]

\* C13: a CSV file is written at most once per run, and only if both queries
\* succeeded and together returned at least one finding.  If a query fails
\* (the HIGH query is never issued when the CRITICAL query fails) its error
\* reaches the top level, nothing is serialized and no file is written.  If
\* both succeed with no finding at all, no file is written and the run ends
\* with the message 'No findings to export.'.
C13_FileOnlyAfterBothQueries ==
  /\ Len(files) <= 1
  /\ files # <<>> =>
       /\ BothSucceeded
       /\ TotalReturned >= 1
       /\ Len(findings) = TotalReturned
       /\ csv.t = "str"
       /\ files[1].content = csv.v
       /\ caught = <<>>
       /\ pc = "done"
       /\ LastOf(log) = "Report generated successfully"
  /\ SomeFailed =>
       /\ files = <<>>
       /\ csv = Undefined
       /\ pc = "done"
       /\ caught = <<WrappedBy(LastOf(replies))>>
       /\ LastOf(log) = "An error occurred:"
       /\ (replies[1].kind # "json" => (Len(queries) = 1 /\ Len(replies) = 1))
  /\ (BothSucceeded /\ TotalReturned = 0) =>
       /\ files = <<>>
       /\ csv = Undefined
       /\ caught = <<>>
       /\ pc = "done"
       /\ LastOf(log) = "No findings to export."

C13_Witness ==
  /\ Len(files) = 1
  /\ BothSucceeded
  /\ ReturnedBy(replies[1]) = <<>>
  /\ Len(ReturnedBy(replies[2])) = 2
  /\ files[1].name = "aws_inspector_all_active_findings_2025-01-22T00-18-14.csv"
  /\ Len(files[1].content) > 0

(***************************************************************************)
(* The availability probe.                                                 *)
(***************************************************************************)
\* the failures of the probe's command whose message carries an
\* access-denied or unauthorized signal
AccessSignalled ==
  { ExecFail("Command failed: aws inspector2 list-findings\nAn error occurred (AccessDeniedException) when calling the ListFindings operation"),
    ExecFail("Command failed: aws inspector2 list-findings\nAn error occurred (UnauthorizedOperation)"),
    ExecGarbage("Unexpected token 'A', \"AccessDenied\" is not valid JSON") }

\* the last step ran the probe
Probed == probe # "none" /\ execOut.kind # "none"

\* C3: isInspectorAvailableInRegion never raises; it returns true if the probe
\* call succeeds or fails with a message carrying AccessDenied or
\* UnauthorizedOperation, and false for every other failure.
C3_ProbeResult ==
  Probed =>
    /\ caught = <<>>
    /\ probe = "true" <=> (execOut.kind = "json" \/ execOut \in AccessSignalled)
    /\ probe = "false" <=> (execOut.kind # "json" /\ execOut \notin AccessSignalled)
    /\ probeCommand = "aws inspector2 list-findings --max-results 1 --profile "
                        \o selectedProfile \o " --region " \o selectedRegion

C3_Witness ==
  /\ Probed /\ probe = "true" /\ execOut.kind = "fail" /\ Includes(execOut.message, "UnauthorizedOperation")

(***************************************************************************)
(* The region catalog.                                                     *)
(***************************************************************************)
\* the last step ran the callback of getAwsRegions' command
RegionsFetched == fetched.t # "undef" /\ execOut.kind # "none" /\ probe = "none"

\* the command answered with a JSON list
IsJsonList(out) == out.kind = "json" /\ out.data.t = "arr"

\* C4: getAwsRegions never rejects, and on any failure of the region query
\* (non-zero exit, or a response that is malformed or not the expected JSON
\* list of region names) it resolves to exactly the 17-entry fallback list.
C4_FallbackOnAnyFailure ==
  (RegionsFetched /\ ~IsJsonList(execOut)) =>
    /\ fetched.t = "arr"
    /\ Len(fetched.v) = 17
    /\ [i \in 1..Len(fetched.v) |-> fetched.v[i].v] = defaultRegions

(***************************************************************************)
(* The prompt.                                                             *)
(***************************************************************************)
PromptStates == {"promptProfile", "promptRegion", "promptFindingType"}

\* while main awaits a prompt, its question is pending: asked once, and once
\* more for every message printed
PromptPending ==
  pc \in PromptStates =>
    /\ prompt = (CASE pc = "promptProfile" -> ProfilePrompt(profiles)
                   [] pc = "promptRegion" -> RegionPrompt(allRegions)
                   [] pc = "promptFindingType" -> FindingTypePrompt)
    /\ asked = Len(printed) + 1
    /\ ~rl.closed
    /\ caught = <<>>

\* a step that reads a line: an accepted line resolves the prompt with its
\* validated value, a rejected one prints the validator's message and asks
\* the same question again
AnswerStep ==
  (pc \in PromptStates /\ answer' # <<>>) =>
    LET verdict == Validate(prompt.validator, answer'[1], prompt.options)
    IN IF verdict.valid
       THEN /\ prompt' = NoPrompt
            /\ pc' \notin PromptStates
            /\ verdict.value = (CASE pc = "promptProfile" -> selectedProfile'
                                  [] pc = "promptRegion" -> selectedRegion'
                                  [] pc = "promptFindingType" -> findingType')
            /\ printed' = printed
            /\ asked' = asked
            /\ caught' = <<>>
       ELSE /\ prompt' = prompt
            /\ pc' = pc
            /\ printed' = Append(printed, verdict.message)
            /\ asked' = asked + 1
            /\ caught' = <<>>
            /\ <<selectedProfile', selectedRegion', findingType'>>
                 = <<selectedProfile, selectedRegion, findingType>>

\* C5: promptSelection resolves only with the validated value of an accepted
\* answer; every rejected answer prints a message and asks the same question
\* again, is never surfaced as an error, and the promise resolves at the first
\* accepted answer, after any number of rejected ones.
C5_PromptUntilValid == []PromptPending /\ [][AnswerStep]_vars

C5_Witness ==
  /\ pc = "isInspectorAvailableInRegion"
  /\ answer = <<"17">>
  /\ Len(printed) = MaxRetries
  /\ asked = MaxRetries + 1
  /\ selectedRegion = "sa-east-1"

(***************************************************************************)
(* Teardown of the readline interface.                                     *)
(***************************************************************************)
Ended == {"done", "exited"}

EarlyAbortMessages ==
  { "No AWS profiles found. Please configure your AWS CLI first.",
    "AWS Inspector is not available in the region.",
    "Error generating CSV content." }

\* C6 as stated: on every execution path rl.close() is called at least once
\* and not more than once.
C6_CloseCalledOnce == pc \in Ended => rl.calls = 1

\* C6 amended: on every execution path the interface is released and torn
\* down exactly once; rl.close() is called once, or twice on the early-abort
\* paths, where the second call finds the interface closed.
C6_TornDownOnce ==
  /\ pc \in Ended => (rl.closed /\ rl.teardowns = 1 /\ rl.calls \in {1, 2})
  /\ pc \notin Ended => (~rl.closed /\ rl.teardowns = 0 /\ rl.calls = 0)
  /\ (pc \in Ended /\ rl.calls = 2)
       <=> (pc = "done" /\ Len(log) > 0 /\ log[Len(log)] \in EarlyAbortMessages)

C6_Witness ==
  /\ pc = "done" /\ rl.calls = 2 /\ rl.teardowns = 1 /\ probe = "false"

(***************************************************************************)
(* The order of the steps of main.                                         *)
(***************************************************************************)
StepOrder ==
  << "getAwsProfiles", "promptProfile", "getDefaultRegion", "getAwsRegions",
     "promptRegion", "isInspectorAvailableInRegion", "promptFindingType",
     "getInspectorFindings", "convertToCsv", "writeFileSync" >>

IsPrefix(a, b) == Len(a) <= Len(b) /\ a = SubSeq(b, 1, Len(a))

\* C7: main runs its steps in the fixed order; no finding-retrieval query is
\* issued and no file is written unless the probe for the selected region and
\* profile returned true; when it returns false the run aborts with a message
\* and never prompts for a scenario.
C7_StepOrder ==
  /\ IsPrefix(steps, StepOrder)
  /\ (queries # <<>> \/ files # <<>> \/ findingType # "" \/ pc = "promptFindingType")
       => /\ probe = "true"
          /\ probeCommand = fullCommand(ProbeCommand, selectedProfile, selectedRegion)
          /\ Len(selectedProfile) > 0 /\ Len(selectedRegion) > 0
  /\ probe = "false"
       => /\ pc = "done"
          /\ steps = SubSeq(StepOrder, 1, 6)
          /\ log = <<"AWS Inspector is not available in the region.">>
          /\ findingType = "" /\ queries = <<>> /\ files = <<>>

C7_Witness == steps = StepOrder /\ Len(files) = 1 /\ probe = "true" /\ pc = "done"

(***************************************************************************)
(* The region prompt.                                                      *)
(***************************************************************************)
\* the catalog as getAwsRegions resolved it
Catalog == [i \in 1..Len(fetched.v) |-> fetched.v[i].v]

DefaultListed ==
  defaultRegion.t = "str" /\ \E i \in 1..Len(Catalog) : Catalog[i] = defaultRegion.v

\* the catalog with the first entry equal to the default region moved to the
\* front and annotated
DefaultFirst ==
  LET at == CHOOSE i \in 1..Len(Catalog) :
              Catalog[i] = defaultRegion.v /\ \A j \in 1..(i - 1) : Catalog[j] # defaultRegion.v
  IN [j \in 1..Len(Catalog) |->
        IF j = 1 THEN defaultRegion.v \o " (default)"
        ELSE IF j <= at THEN Catalog[j - 1] ELSE Catalog[j]]

\* C8: the region the region prompt returns is an element of the catalog as
\* fetched, without the " (default)" annotation; the displayed list is the
\* catalog with a listed default region moved to the front and annotated, the
\* others in their order, and the catalog unchanged otherwise; selecting a
\* displayed entry yields the corresponding catalog entry.
C8_RegionFromCatalog ==
  fetched.t = "arr" =>
    /\ allRegions = IF DefaultListed THEN DefaultFirst ELSE Catalog
    /\ selectedRegion # "" =>
         /\ \E i \in 1..Len(Catalog) : Catalog[i] = selectedRegion
         /\ ~Includes(selectedRegion, " (default)")
    /\ (pc = "isInspectorAvailableInRegion" /\ answer # <<>>) =>
         LET k == ParseInt(answer[1]).n
         IN selectedRegion = IF DefaultListed /\ k = 1 THEN defaultRegion.v ELSE allRegions[k]

C8_Witness ==
  /\ pc = "isInspectorAvailableInRegion"
  /\ answer = <<"1">>
  /\ Len(allRegions) = 17
  /\ allRegions[1] = "sa-east-1 (default)"
  /\ allRegions[17] = "eu-north-1"
  /\ selectedRegion = "sa-east-1"

====
